---- MODULE Spec2Model ----
(***************************************************************************)
(* The request-verification middlewares of src/src/middleware/index.ts.    *)
(*                                                                         *)
(* A request is drawn in Init; each action is one middleware, run in the   *)
(* order of the route's chain.  A middleware ends in exactly one of three  *)
(* ways: it calls next(), it sends a response, or an exception leaves it.  *)
(* Every run is appended to hist, with the clock value it read.  A client  *)
(* may send a rejected request again, unchanged; past keeps the rejections *)
(* of its earlier submissions.                                             *)
(*                                                                         *)
(* Abstractions (stated where they are made):                              *)
(*  - secp256k1/keccak256 are not computed.  A signature is the pair       *)
(*    (rs, len): rs says whether its first 64 bytes are the (r, s) of a    *)
(*    signature by the private key of (pub_key_X, pub_key_Y) over          *)
(*    keccak256(stringify(set_data)); len is its decoded length in bytes.  *)
(*  - validateInput, getError and getDBTableName live outside src/ and    *)
(*    are modelled from the specification's sections 4.3, 6 and 7.         *)
(***************************************************************************)
EXTENDS Integers, Sequences, FiniteSets, TLC

VARIABLES clock, req, pc, hist, locals, past

vars == <<clock, req, pc, hist, locals, past>>

---------------------------------------------------------------------------
(* Bounds of the model *)

\* longest timestamp string of a single-item request
MaxTsLen == 2
\* longest batch (array under the caller-specified key)
MaxBatch == 2
\* how often a client sends a rejected request again
MaxResubmits == 1

---------------------------------------------------------------------------
(* Numbers as JavaScript has them: an integer or NaN *)

NaN == [nan |-> TRUE, n |-> 0]
Num(k) == [nan |-> FALSE, n |-> k]

\* a - b
JsSub(a, b) == IF a.nan \/ b.nan THEN NaN ELSE Num(a.n - b.n)

\* a > k for a literal k: false when a is NaN
JsGt(a, k) == ~a.nan /\ a.n > k

\* Date.now() is a number of milliseconds too large for the checker's
\* integers once the seconds pass 2^31, so a clock value is kept in three
\* parts: its whole seconds are hi * 2^16 + lo, with 0 <= lo < 2^16, and ms
\* are the milliseconds past them.
Half == 65536

\* ~~x for x >= 0 with integral part hi * 2^16 + lo: ToInt32, the value
\* modulo 2^32 taken in [-2^31, 2^31)
ToInt32(hi, lo) ==
  LET h == hi % Half
  IN IF h >= Half \div 2 THEN (h - Half) * Half + lo ELSE h * Half + lo

\* ~~(Date.now() / 1000) at clock value c
ServerTime(c) == ToInt32(c.hi, c.lo)

\* c is an earlier clock value than d
ClockBefore(c, d) ==
  \/ c.hi < d.hi
  \/ c.hi = d.hi /\ c.lo < d.lo
  \/ c.hi = d.hi /\ c.lo = d.lo /\ c.ms < d.ms

---------------------------------------------------------------------------
(* parseInt(string, 16) *)

HexChars == <<"0", "1", "2", "3", "4", "5", "6", "7", "8", "9",
              "a", "b", "c", "d", "e", "f">>
UpperHexChars == <<"0", "1", "2", "3", "4", "5", "6", "7", "8", "9",
                   "A", "B", "C", "D", "E", "F">>

\* the value of a hexadecimal digit, -1 for any other character
HexVal(c) ==
  IF \E i \in 1..16 : HexChars[i] = c
  THEN (CHOOSE i \in 1..16 : HexChars[i] = c) - 1
  ELSE IF \E i \in 1..16 : UpperHexChars[i] = c
  THEN (CHOOSE i \in 1..16 : UpperHexChars[i] = c) - 1
  ELSE -1

\* the number of leading hexadecimal digits of s
RECURSIVE DigitPrefixLen(_)
DigitPrefixLen(s) ==
  IF s = <<>> \/ HexVal(Head(s)) < 0 THEN 0 ELSE 1 + DigitPrefixLen(Tail(s))

\* the value of the first k characters of s, all hexadecimal digits
RECURSIVE HexValue(_, _)
HexValue(s, k) ==
  IF k = 0 THEN 0 ELSE 16 * HexValue(s, k - 1) + HexVal(s[k])

RECURSIVE StripSpace(_)
StripSpace(s) ==
  IF s # <<>> /\ Head(s) = " " THEN StripSpace(Tail(s)) ELSE s

StripSign(s) ==
  IF s # <<>> /\ Head(s) \in {"-", "+"} THEN Tail(s) ELSE s

StripHexPrefix(s) ==
  IF Len(s) >= 2 /\ s[1] = "0" /\ s[2] \in {"x", "X"} THEN Tail(Tail(s)) ELSE s

\* parseInt(s, 16): leading white space, a sign and "0x" are skipped, the
\* longest prefix of hexadecimal digits is the value, NaN when it is empty
ParseIntHex(s) ==
  LET t == StripSpace(s)
      neg == t # <<>> /\ Head(t) = "-"
      u == StripHexPrefix(StripSign(t))
      k == DigitPrefixLen(u)
  IN IF k = 0 THEN NaN
     ELSE Num(IF neg THEN 0 - HexValue(u, k) ELSE HexValue(u, k))

\* parseInt of a field: an absent field is undefined, "undefined" has no
\* hexadecimal prefix
ParseTimestamp(sd) ==
  IF sd.hasTimestamp THEN ParseIntHex(sd.timestamp) ELSE NaN

---------------------------------------------------------------------------
(* Requests *)

\* the characters timestamps are made of: two hexadecimal digits and one
\* character that is none
TsChars == {"3", "c", "z"}

RECURSIVE StringsUpTo(_)
StringsUpTo(k) ==
  IF k = 0 THEN {<<>>}
  ELSE LET shorter == StringsUpTo(k - 1)
       IN shorter \cup {Append(s, c) : s \in {t \in shorter : Len(t) = k - 1},
                                       c \in TsChars}

\* set_data.data: the empty string, a free value and the two v2 commands
DataValues == {"", "hello", "getNonce", "getOrSetNonce"}

\* set_data as the middlewares find it: the key absent (undefined), null, or
\* an object whose data and timestamp fields are present or not.  An absent
\* field holds the empty value.
SetDataOf(tss) ==
  {[kind |-> "undefined", hasData |-> FALSE, data |-> "",
    hasTimestamp |-> FALSE, timestamp |-> <<>>],
   [kind |-> "null", hasData |-> FALSE, data |-> "",
    hasTimestamp |-> FALSE, timestamp |-> <<>>]}
  \cup {[kind |-> "object", hasData |-> FALSE, data |-> "",
         hasTimestamp |-> FALSE, timestamp |-> <<>>]}
  \cup {[kind |-> "object", hasData |-> TRUE, data |-> d,
         hasTimestamp |-> FALSE, timestamp |-> <<>>] : d \in DataValues}
  \cup {[kind |-> "object", hasData |-> FALSE, data |-> "",
         hasTimestamp |-> TRUE, timestamp |-> t] : t \in tss}
  \cup {[kind |-> "object", hasData |-> TRUE, data |-> d,
         hasTimestamp |-> TRUE, timestamp |-> t] : d \in DataValues, t \in tss}

\* a signature: absent, or base64 text decoding to len bytes
Signatures ==
  {[present |-> FALSE, rs |-> "bad", len |-> 0]}
  \cup {[present |-> TRUE, rs |-> r, len |-> l] :
          r \in {"good", "bad"}, l \in {63, 64, 65}}

\* the body of a single-item request (mandatory and v2 routes)
Envelopes ==
  {[set_data |-> sd, pub_key_X |-> x, pub_key_Y |-> y, signature |-> sg] :
     sd \in SetDataOf(StringsUpTo(MaxTsLen)), x \in BOOLEAN, y \in BOOLEAN,
     sg \in Signatures}

\* the timestamps of batch items: fresh or stale by the clock, and one that
\* is no hexadecimal number
BatchTimestamps == {<<"3">>, <<"3", "c">>, <<"z">>}

BatchSignatures ==
  {sg \in Signatures : ~sg.present \/ sg.len = 64}

\* an element of a batch: null, or an envelope with both key coordinates
BatchItems ==
  {[null |-> TRUE, set_data |-> sd, pub_key_X |-> TRUE, pub_key_Y |-> TRUE,
    signature |-> sg] :
     sd \in {x \in SetDataOf({}) : x.kind = "undefined"},
     sg \in {x \in Signatures : ~x.present}}
  \cup {[null |-> FALSE, set_data |-> sd, pub_key_X |-> TRUE,
         pub_key_Y |-> TRUE, signature |-> sg] :
          sd \in {x \in SetDataOf(BatchTimestamps) :
                    \/ x.kind = "undefined"
                    \/ x.hasData /\ x.data = "hello" /\ x.hasTimestamp},
          sg \in BatchSignatures}

RECURSIVE SeqsUpTo(_, _)
SeqsUpTo(S, k) ==
  IF k = 0 THEN {<<>>}
  ELSE LET shorter == SeqsUpTo(S, k - 1)
       IN shorter \cup {Append(s, x) : s \in {t \in shorter : Len(t) = k - 1},
                                       x \in S}

\* the value under the caller-specified key of a batch request: an array,
\* or something that is none
BatchValues ==
  {[kind |-> k, items |-> <<>>] : k \in {"undefined", "null", "scalar", "object"}}
  \cup {[kind |-> "array", items |-> a] : a \in SeqsUpTo(BatchItems, MaxBatch)}

\* data.timeStamp of a lock request, a number
LockStamps == {3, 60}

\* the body of a lock request: {key, signature, data: {timeStamp}}
LockBodies ==
  {[hasKey |-> k, hasSignature |-> sg[1], sigGood |-> sg[2],
    dataKind |-> d[1], hasTimeStamp |-> d[2], timeStamp |-> d[3]] :
     k \in BOOLEAN,
     sg \in {<<FALSE, FALSE>>, <<TRUE, FALSE>>, <<TRUE, TRUE>>},
     d \in {<<"undefined", FALSE, 0>>, <<"object", FALSE, 0>>}
           \cup {<<"object", TRUE, t>> : t \in LockStamps}}

NoEnvelope ==
  [set_data |-> [kind |-> "undefined", hasData |-> FALSE, data |-> "",
                 hasTimestamp |-> FALSE, timestamp |-> <<>>],
   pub_key_X |-> FALSE, pub_key_Y |-> FALSE,
   signature |-> [present |-> FALSE, rs |-> "bad", len |-> 0]]

NoBatch == [kind |-> "undefined", items |-> <<>>]

NoLock ==
  [hasKey |-> FALSE, hasSignature |-> FALSE, sigGood |-> FALSE,
   dataKind |-> "undefined", hasTimeStamp |-> FALSE, timeStamp |-> 0]

\* the namespace of a body or of a batch item: one the resolver knows, one
\* it refuses; "null" is an item that is null
Namespaces == {"known", "refused"}

\* what validateNamespace and validateNamespaceLoop read: the body's own
\* namespace, or the value under the caller-specified key, an array of
\* items or something that is none
NamespaceValues ==
  {[kind |-> k, items |-> <<>>] : k \in {"undefined", "scalar"}}
  \cup {[kind |-> "array", items |-> a] :
          a \in SeqsUpTo(Namespaces \cup {"null"}, MaxBatch)}

NoNamespace == [kind |-> "undefined", items |-> <<>>]

\* the payload of validationMiddleware: an envelope without a timestamp
PlainEnvelopes == {e \in Envelopes : ~e.set_data.hasTimestamp}

Routes ==
  {"single", "v2", "batch", "loop", "lock", "validate", "namespace",
   "namespaceLoop"}

\* A request: its route, its body, and the places of the body middlewares
\* have assigned to since it arrived (none at first).
Request(route, hasBody, env, batch, lock, ns) ==
  [route |-> route, hasBody |-> hasBody, env |-> env, batch |-> batch,
   lock |-> lock, ns |-> ns, assigned |-> {}]

\* the requests: one per route and body, and one per route without a body
Requests ==
  {Request(r, FALSE, NoEnvelope, NoBatch, NoLock, NoNamespace) : r \in Routes}
  \cup {Request(r, TRUE, e, NoBatch, NoLock, NoNamespace) :
          r \in {"single", "v2"}, e \in Envelopes}
  \cup {Request(r, TRUE, NoEnvelope, b, NoLock, NoNamespace) :
          r \in {"batch", "loop"}, b \in BatchValues}
  \cup {Request("lock", TRUE, NoEnvelope, NoBatch, l, NoNamespace) :
          l \in LockBodies}
  \cup {Request("validate", TRUE, e, NoBatch, NoLock, NoNamespace) :
          e \in PlainEnvelopes}
  \cup {Request("namespace", TRUE, NoEnvelope, NoBatch, NoLock,
                 [kind |-> "array", items |-> <<n>>]) : n \in Namespaces}
  \cup {Request("namespaceLoop", TRUE, NoEnvelope, NoBatch, NoLock, v) :
          v \in NamespaceValues}

\* Date.now(): around the freshness boundary of the timestamps 0x3 and
\* 0x3c (63 s, 64 s, 120 s, 121 s), and past 2^31 seconds
\* (49152 * 2^16 + 64 s)
ClockValues ==
  {[hi |-> 0, lo |-> 63, ms |-> 999], [hi |-> 0, lo |-> 64, ms |-> 0],
   [hi |-> 0, lo |-> 120, ms |-> 999], [hi |-> 0, lo |-> 121, ms |-> 0],
   [hi |-> 49152, lo |-> 64, ms |-> 500]}

---------------------------------------------------------------------------
(* What a middleware run ends in *)

Window == 60

StaleMessage == "Message has been signed more than 60s ago"

NoIndex == -1

\* one run of a middleware: how it ended (next, respond, throw), the response
\* (status, the body's shape and its error), the index the error carries,
\* the number of batch items it examined, the number of calls of
\* elliptic.verify it made, whether it set res.locals.noValidSig, and the
\* places of the request it assigned to: <<i, key>> is key of batch item i,
\* <<NoIndex, key>> is key of req.body
Outcome(kind, status, shape, errorKind, error, index, examined, verifies, flag, writes) ==
  [kind |-> kind, status |-> status, shape |-> shape, errorKind |-> errorKind,
   error |-> error, index |-> index, examined |-> examined,
   verifies |-> verifies, flag |-> flag, writes |-> writes]

\* return next()
CallNext(examined, verifies) ==
  Outcome("next", 0, "none", "none", {}, NoIndex, examined, verifies, FALSE, {})

\* return res.status(status).json({ error: errors, success: false })
Reject(status, errors, index, examined, verifies) ==
  Outcome("respond", status, "success", "map", errors, index, examined,
          verifies, FALSE, {})

\* return res.status(status).json({ error: message, status: 0 })
RejectLock(status, message, verifies) ==
  Outcome("respond", status, "status", "string", {<<"error", message>>},
          NoIndex, 0, verifies, FALSE, {})

\* an exception (or the rejection of the async function's promise) that no
\* catch of the middleware holds
Throw(examined, verifies) ==
  Outcome("throw", 0, "none", "none", {}, NoIndex, examined, verifies, FALSE, {})

\* getError(error): a normalized message; it keeps the index the batch
\* loop attached to the error
getError(index) == [error |-> {<<"message", "internal error">>}, index |-> index]

\* return res.status(500).json({ error: getError(error), success: false })
Internal(index, examined, verifies) ==
  Reject(500, getError(index).error, getError(index).index, examined, verifies)

---------------------------------------------------------------------------
(* validateInput, of ../validations *)

\* the fields of set_data that are present and not empty; set_data undefined
\* has become {} by the destructuring default, null stays null
SetDataFields(sd) ==
  IF sd.kind # "object" THEN {}
  ELSE {f \in {"data", "timestamp"} :
          \/ f = "data" /\ sd.hasData /\ sd.data # ""
          \/ f = "timestamp" /\ sd.hasTimestamp /\ sd.timestamp # <<>>}

\* the fields of a batch item that are present and not empty
ItemFields(p) ==
  IF p.null THEN {}
  ELSE {f \in {"set_data", "pub_key_X", "pub_key_Y", "signature"} :
          \/ f = "set_data" /\ p.set_data.kind = "object"
          \/ f = "pub_key_X" /\ p.pub_key_X
          \/ f = "pub_key_Y" /\ p.pub_key_Y
          \/ f = "signature" /\ p.signature.present}

\* validateInput(payload, items).errors for a payload with these non-empty
\* fields: one message per required field that is missing or empty
validateInput(fields, items) ==
  {<<f, "is required">> : f \in items \ fields}

---------------------------------------------------------------------------
(* Signature verification, as the three envelope middlewares do it *)

\* the statements before elliptic.verify throw: keyFromPublic without both
\* coordinates, Buffer.from(undefined), keccak256(stringify(undefined))
VerifyThrows(e) ==
  \/ ~e.pub_key_X
  \/ ~e.pub_key_Y
  \/ ~e.signature.present
  \/ e.set_data.kind = "undefined"

\* elliptic.verify(keccak256(stringify(setData)), {r, s}, pubKey), r and s
\* being bytes 0..31 and 32..63 of the decoded signature: bytes past the
\* 64th are not read, and a shorter signature leaves s short of a byte
isValidSignature(e) ==
  e.signature.rs = "good" /\ e.signature.len >= 64

---------------------------------------------------------------------------
(* The single-item middlewares, mandatory mode *)

\* ~~(Date.now() / 1000) - timeParsed > 60
StaleSingle(now, timeParsed) == JsGt(JsSub(Num(now), timeParsed), Window)

validateMetadataInput(r, ms) ==
  IF ~r.hasBody THEN Throw(0, 0)
  ELSE
    LET setData == r.env.set_data
        errors == validateInput(SetDataFields(setData), {"data", "timestamp"})
        timeParsed == ParseTimestamp(setData)
    IN IF errors # {} THEN Reject(400, errors, NoIndex, 0, 0)
       ELSE IF StaleSingle(ServerTime(ms), timeParsed)
       THEN Reject(403, errors \cup {<<"timestamp", StaleMessage>>},
                   NoIndex, 0, 0)
       ELSE CallNext(0, 0)

validateSignature(r, ms) ==
  IF ~r.hasBody THEN Internal(NoIndex, 0, 0)
  ELSE IF VerifyThrows(r.env) THEN Internal(NoIndex, 0, 0)
  ELSE IF ~isValidSignature(r.env)
  THEN Reject(403, {<<"signature", "Invalid signature">>}, NoIndex, 0, 1)
  ELSE CallNext(0, 1)

---------------------------------------------------------------------------
(* The single-item middlewares, optional-signature (v2) mode *)

\* validV2InputWithSig testing the signature key alone
validV2InputSignatureOnly(e) == e.signature.present

\* "set_data" in body && "pub_key_X" in body && "pub_key_Y" in body &&
\* "signature" in body: a key whose value is null is in the body
validV2InputWithSig(e) ==
  /\ e.set_data.kind # "undefined"
  /\ e.pub_key_X
  /\ e.pub_key_Y
  /\ e.signature.present

\* PassUnauthenticated leaving the mark on req.body as well
PassUnauthenticatedInBody ==
  Outcome("next", 0, "none", "none", {}, NoIndex, 0, 0, TRUE,
          {<<NoIndex, "noValidSig">>})

\* res.locals.noValidSig = true; return next()
PassUnauthenticated ==
  Outcome("next", 0, "none", "none", {}, NoIndex, 0, 0, TRUE, {})

V2Commands == {"getOrSetNonce", "getNonce"}

\* StaleV2 with >= written for >
StaleV2AtWindow(now, timeParsed) ==
  LET age == JsSub(Num(now), timeParsed) IN ~age.nan /\ age.n >= Window

StaleV2(now, timeParsed) == JsGt(JsSub(Num(now), timeParsed), Window)

validateGetOrSetNonceSetInput(r, ms) ==
  IF ~r.hasBody THEN Throw(0, 0)
  ELSE IF ~validV2InputWithSig(r.env) THEN PassUnauthenticated
  ELSE
    LET setData == r.env.set_data
        errors == validateInput(SetDataFields(setData), {"data", "timestamp"})
        timeParsed == ParseTimestamp(setData)
    IN IF errors # {} THEN Reject(400, errors, NoIndex, 0, 0)
       ELSE IF setData.data \notin V2Commands
       THEN Reject(403, errors \cup
                     {<<"data", "Should be equal to 'getOrSetNonce' or 'getNonce'">>},
                   NoIndex, 0, 0)
       ELSE IF StaleV2(ServerTime(ms), timeParsed)
       THEN Reject(403, errors \cup {<<"timestamp", StaleMessage>>},
                   NoIndex, 0, 0)
       ELSE CallNext(0, 0)

validateGetOrSetNonceSignature(r, ms) ==
  IF ~r.hasBody THEN Throw(0, 0)
  ELSE IF ~validV2InputWithSig(r.env) THEN PassUnauthenticated
  ELSE IF VerifyThrows(r.env) THEN Internal(NoIndex, 0, 0)
  ELSE IF ~isValidSignature(r.env)
  THEN Reject(403, {<<"signature", "Invalid signature">>}, NoIndex, 0, 1)
  ELSE CallNext(0, 1)

---------------------------------------------------------------------------
(* validateLockData *)

StaleLock(now, timeStamp) == JsGt(JsSub(Num(now), timeStamp), Window)

\* return res.status(500).json({ error: getError(error), status: 0 })
InternalLock(verifies) ==
  Outcome("respond", 500, "status", "map", getError(NoIndex).error, NoIndex,
          0, verifies, FALSE, {})

\* The arguments of elliptic.verify throw for data undefined (keccak256 of
\* undefined) and key undefined (Buffer.from); verify throws for a signature
\* undefined.  The signature is checked before the time stamp.
validateLockData(r, ms) ==
  IF ~r.hasBody THEN InternalLock(0)
  ELSE IF r.lock.dataKind = "undefined" \/ ~r.lock.hasKey THEN InternalLock(0)
  ELSE IF ~r.lock.hasSignature THEN InternalLock(1)
  ELSE IF ~r.lock.sigGood THEN RejectLock(403, "Invalid Signature", 1)
  ELSE IF StaleLock(ServerTime(ms),
                    IF r.lock.hasTimeStamp THEN Num(r.lock.timeStamp) ELSE NaN)
  THEN RejectLock(403, StaleMessage, 1)
  ELSE CallNext(0, 1)

---------------------------------------------------------------------------
(* The batch middlewares.  Item i of the code is items[i + 1] here. *)

\* the required fields validationLoopMiddleware is built with
LoopRequired == {"pub_key_X", "pub_key_Y", "signature"}

\* ValidationLoopFrom without the return inside the loop: every item is
\* validated and the last failure is the one reported
RECURSIVE ValidationLoopExhaustive(_, _)
ValidationLoopExhaustive(items, i) ==
  IF i > Len(items) THEN CallNext(Len(items), 0)
  ELSE
    LET errors == validateInput(ItemFields(items[i]), LoopRequired)
        later == ValidationLoopExhaustive(items, i + 1)
    IN IF later.kind = "respond" THEN later
       ELSE IF errors # {} THEN Reject(400, errors, i - 1, Len(items), 0)
       ELSE later

\* for (const [index, param] of mainParamToTest.entries()), from item i on
RECURSIVE ValidationLoopFrom(_, _)
ValidationLoopFrom(items, i) ==
  IF i > Len(items) THEN CallNext(Len(items), 0)
  ELSE
    LET errors == validateInput(ItemFields(items[i]), LoopRequired)
    IN IF errors # {} THEN Reject(400, errors, i - 1, i, 0)
       ELSE ValidationLoopFrom(items, i + 1)

validationLoopMiddleware(r, ms) ==
  IF ~r.hasBody THEN Internal(NoIndex, 0, 0)
  ELSE IF r.batch.kind # "array"
  THEN Reject(400, {<<"message", "must be an array">>}, NoIndex, 0, 0)
  ELSE ValidationLoopFrom(r.batch.items, 1)

StaleLoop(now, timeParsed) == JsGt(JsSub(Num(now), timeParsed), Window)

\* The loop of validateMetadataLoopInput from item i on.  A null item makes
\* the destructuring throw; the stale branch sets errors.timestamp and
\* leaves errors.index unset.
RECURSIVE MetadataLoopFrom(_, _, _)
MetadataLoopFrom(items, i, ms) ==
  IF i > Len(items) THEN CallNext(Len(items), 0)
  ELSE IF items[i].null THEN Throw(i, 0)
  ELSE
    LET setData == items[i].set_data
        errors == validateInput(SetDataFields(setData), {"data", "timestamp"})
        timeParsed == ParseTimestamp(setData)
    IN IF errors # {} THEN Reject(400, errors, i - 1, i, 0)
       ELSE IF StaleLoop(ServerTime(ms), timeParsed)
       THEN Reject(403, errors \cup {<<"timestamp", StaleMessage>>},
                   NoIndex, i, 0)
       ELSE MetadataLoopFrom(items, i + 1, ms)

\* The Array.isArray test is commented out: .entries() of a value that is
\* no array is a TypeError outside any try.
validateMetadataLoopInput(r, ms) ==
  IF ~r.hasBody THEN Throw(0, 0)
  ELSE IF r.batch.kind # "array" THEN Throw(0, 0)
  ELSE MetadataLoopFrom(r.batch.items, 1, ms)

\* The loop of validateLoopSignature from item i on, v calls of
\* elliptic.verify made so far.  The try is inside the loop.
RECURSIVE SignatureLoopFrom(_, _, _)
SignatureLoopFrom(items, i, v) ==
  IF i > Len(items) THEN CallNext(Len(items), v)
  ELSE IF items[i].null \/ VerifyThrows(items[i]) THEN Internal(i - 1, i, v)
  ELSE IF ~isValidSignature(items[i])
  THEN Reject(403, {<<"signature", "Invalid signature">>}, i - 1, i, v + 1)
  ELSE SignatureLoopFrom(items, i + 1, v + 1)

validateLoopSignature(r, ms) ==
  IF ~r.hasBody THEN Throw(0, 0)
  ELSE IF r.batch.kind # "array" THEN Throw(0, 0)
  ELSE SignatureLoopFrom(r.batch.items, 1, 0)

---------------------------------------------------------------------------
(* validationMiddleware *)

\* the fields of an envelope that are present and not empty
EnvelopeFields(e) ==
  {f \in {"set_data", "pub_key_X", "pub_key_Y", "signature"} :
     \/ f = "set_data" /\ e.set_data.kind = "object"
     \/ f = "pub_key_X" /\ e.pub_key_X
     \/ f = "pub_key_Y" /\ e.pub_key_Y
     \/ f = "signature" /\ e.signature.present}

\* the required fields validationMiddleware is built with
ValidationRequired == {"pub_key_X", "pub_key_Y", "set_data", "signature"}

\* validateInput reports every required field of a missing payload
validationMiddleware(r, ms) ==
  LET errors == validateInput(IF r.hasBody THEN EnvelopeFields(r.env) ELSE {},
                              ValidationRequired)
  IN IF errors # {} THEN Reject(400, errors, NoIndex, 0, 0)
     ELSE CallNext(0, 0)

---------------------------------------------------------------------------
(* The namespace middlewares *)

\* getDBTableName(namespace), of ../utils/namespace: the table of a
\* namespace, or a validation error
getDBTableName(namespace) ==
  [throws |-> namespace # "known", table |-> "table"]

\* req.body.tableName = getDBTableName(namespace); return next()
validateNamespace(r, ms) ==
  IF ~r.hasBody THEN Internal(NoIndex, 0, 0)
  ELSE IF getDBTableName(r.ns.items[1]).throws THEN Internal(NoIndex, 0, 0)
  ELSE [CallNext(0, 0) EXCEPT !.writes = {<<NoIndex, "tableName">>}]

\* The loop of validateNamespaceLoop from item i on: the items before i have
\* their tableName.  A null item makes the destructuring throw, inside the
\* try; the error is logged with the index and answered without it.
RECURSIVE NamespaceLoopFrom(_, _)
NamespaceLoopFrom(items, i) ==
  LET done == {<<j - 1, "tableName">> : j \in 1..(i - 1)}
  IN IF i > Len(items) THEN [CallNext(Len(items), 0) EXCEPT !.writes = done]
     ELSE IF items[i] = "null" \/ getDBTableName(items[i]).throws
     THEN [Internal(NoIndex, i, 0) EXCEPT !.writes = done]
     ELSE NamespaceLoopFrom(items, i + 1)

\* paramsObject[key] and .entries() are outside the try
validateNamespaceLoop(r, ms) ==
  IF ~r.hasBody THEN Throw(0, 0)
  ELSE IF r.ns.kind # "array" THEN Throw(0, 0)
  ELSE NamespaceLoopFrom(r.ns.items, 1)

---------------------------------------------------------------------------
(* The state machine *)

\* the middlewares of each route, in the order they are mounted
Chain(route) ==
  CASE route = "single" -> <<"validateMetadataInput", "validateSignature">>
    [] route = "v2" -> <<"validateGetOrSetNonceSetInput",
                         "validateGetOrSetNonceSignature">>
    [] route = "batch" -> <<"validateMetadataLoopInput", "validateLoopSignature">>
    [] route = "loop" -> <<"validationLoopMiddleware">>
    [] route = "lock" -> <<"validateLockData">>
    [] route = "validate" -> <<"validationMiddleware">>
    [] route = "namespace" -> <<"validateNamespace">>
    [] route = "namespaceLoop" -> <<"validateNamespaceLoop">>

\* pc is the place in the chain of the middleware to run next, 0 when the
\* request has left the chain (a response, an exception, or the last next())
Init ==
  /\ clock \in ClockValues
  /\ req \in Requests
  /\ pc = 1
  /\ hist = <<>>
  /\ locals = [noValidSig |-> FALSE]
  /\ past = <<>>

\* one middleware runs to its end on the request, reading the clock
Run(name, outcome) ==
  /\ pc > 0
  /\ Chain(req.route)[pc] = name
  /\ hist' = Append(hist, [mw |-> name, at |-> clock, out |-> outcome])
  /\ pc' = IF outcome.kind = "next" /\ pc < Len(Chain(req.route))
           THEN pc + 1 ELSE 0
  /\ locals' = [noValidSig |-> locals.noValidSig \/ outcome.flag]
  /\ req' = [req EXCEPT !.assigned = @ \cup outcome.writes]
  /\ UNCHANGED <<clock, past>>

StepValidateMetadataInput ==
  Run("validateMetadataInput", validateMetadataInput(req, clock))

StepValidateSignature ==
  Run("validateSignature", validateSignature(req, clock))

StepValidateGetOrSetNonceSetInput ==
  Run("validateGetOrSetNonceSetInput", validateGetOrSetNonceSetInput(req, clock))

StepValidateGetOrSetNonceSignature ==
  Run("validateGetOrSetNonceSignature", validateGetOrSetNonceSignature(req, clock))

StepValidationLoopMiddleware ==
  Run("validationLoopMiddleware", validationLoopMiddleware(req, clock))

StepValidateMetadataLoopInput ==
  Run("validateMetadataLoopInput", validateMetadataLoopInput(req, clock))

StepValidateLoopSignature ==
  Run("validateLoopSignature", validateLoopSignature(req, clock))

StepValidateLockData ==
  Run("validateLockData", validateLockData(req, clock))

StepValidationMiddleware ==
  Run("validationMiddleware", validationMiddleware(req, clock))

StepValidateNamespace ==
  Run("validateNamespace", validateNamespace(req, clock))

StepValidateNamespaceLoop ==
  Run("validateNamespaceLoop", validateNamespaceLoop(req, clock))

\* time passes while the request is in the chain
Tick ==
  /\ pc > 0
  /\ \E c \in ClockValues : ClockBefore(clock, c) /\ clock' = c
  /\ UNCHANGED <<req, pc, hist, locals, past>>

\* the client sends the request a middleware rejected once more, unchanged,
\* now or later: the chain starts again on the body as the client sent it,
\* with a fresh res.locals
Resubmit ==
  /\ pc = 0
  /\ hist # <<>>
  /\ hist[Len(hist)].out.kind = "respond"
  /\ Len(past) < MaxResubmits
  /\ \E c \in ClockValues : (c = clock \/ ClockBefore(clock, c)) /\ clock' = c
  /\ past' = Append(past, [out |-> hist[Len(hist)].out])
  /\ pc' = 1
  /\ hist' = <<>>
  /\ locals' = [noValidSig |-> FALSE]
  /\ req' = [req EXCEPT !.assigned = {}]

Next ==
  \/ StepValidateMetadataInput
  \/ StepValidateSignature
  \/ StepValidateGetOrSetNonceSetInput
  \/ StepValidateGetOrSetNonceSignature
  \/ StepValidationLoopMiddleware
  \/ StepValidateMetadataLoopInput
  \/ StepValidateLoopSignature
  \/ StepValidateLockData
  \/ StepValidationMiddleware
  \/ StepValidateNamespace
  \/ StepValidateNamespaceLoop
  \/ Tick
  \/ Resubmit

Spec == Init /\ [][Next]_vars

---------------------------------------------------------------------------
(* Vocabulary of the properties *)

\* the request has left its chain
Finished == pc = 0

\* the last middleware of the chain called next()
Accepted ==
  /\ Finished
  /\ Len(hist) = Len(Chain(req.route))
  /\ hist[Len(hist)].out.kind = "next"

\* the runs of the middleware called name
RunsOf(name) == {k \in 1..Len(hist) : hist[k].mw = name}

\* the response is the staleness rejection
IsStaleRejection(o) ==
  /\ o.kind = "respond"
  /\ o.status = 403
  /\ \E f \in {"timestamp", "error"} : <<f, StaleMessage>> \in o.error

\* the true server time of clock value c, in whole seconds, minus t is at
\* most 60 (every timestamp of the model is far below 2^31 - 60)
AgeWithinWindow(c, t) ==
  /\ ~t.nan
  /\ c.hi < Half \div 2
  /\ c.hi * Half + c.lo - t.n <= 60

\* set_data holds a non-empty data and a non-empty timestamp
WellFormed(sd) ==
  /\ sd.kind = "object"
  /\ sd.hasData /\ sd.data # ""
  /\ sd.hasTimestamp /\ sd.timestamp # <<>>

\* the envelope carries both key coordinates and a signature whose first 64
\* bytes are a signature of set_data by the key
SignatureVerifies(e) ==
  /\ e.pub_key_X /\ e.pub_key_Y
  /\ e.signature.present /\ e.signature.rs = "good" /\ e.signature.len >= 64

---------------------------------------------------------------------------
(* C1 *)

\* C1: in mandatory-signature mode, a request the chain validateMetadataInput,
\* validateSignature accepts has a set_data with non-empty data and
\* timestamp, a server time (when the replay check ran) at most 60 s past
\* the hex-parsed timestamp, and a verifying signature.
C1_AcceptedIsValidFreshSigned ==
  (req.route = "single" /\ Accepted) =>
    /\ WellFormed(req.env.set_data)
    /\ AgeWithinWindow(hist[1].at, ParseTimestamp(req.env.set_data))
    /\ SignatureVerifies(req.env)

---------------------------------------------------------------------------
(* C2 *)

\* the envelope passes every check that precedes the replay check on its
\* route (the v2 route also tests the command before the time)
PassesStructural(r) ==
  /\ r.hasBody
  /\ WellFormed(r.env.set_data)
  /\ r.route = "v2" => validV2InputWithSig(r.env) /\ r.env.set_data.data \in V2Commands

\* the envelope's timestamp is more than 60 s behind the time the
\* middleware of run k computed
EnvelopeStaleAt(k) ==
  LET t == ParseTimestamp(req.env.set_data)
  IN ~t.nan /\ ServerTime(hist[k].at) - t.n > Window

\* the lock request is complete and its timeStamp is more than 60 s behind
\* the time the middleware of run k computed
LockStaleAt(k) ==
  /\ req.hasBody /\ req.lock.hasKey /\ req.lock.hasSignature
  /\ req.lock.dataKind = "object" /\ req.lock.hasTimeStamp
  /\ ServerTime(hist[k].at) - req.lock.timeStamp > Window

\* the calls of elliptic.verify made for the request so far
RECURSIVE VerifiesUpTo(_)
VerifiesUpTo(k) ==
  IF k = 0 THEN 0 ELSE VerifiesUpTo(k - 1) + hist[k].out.verifies

\* C2: on each single-item path the stages run structural, replay,
\* signature and stop at the first that fails: a stale request is rejected
\* with the timestamp error whatever its signature, and elliptic.verify is
\* not called for a request that fails the structural or the freshness
\* check.
C2_StagesInOrder ==
  /\ (req.route \in {"single", "v2"} /\ Finished /\ PassesStructural(req)
        /\ EnvelopeStaleAt(1))
       => IsStaleRejection(hist[1].out) /\ VerifiesUpTo(Len(hist)) = 0
  /\ (req.route \in {"single", "v2"} /\ Finished /\ req.hasBody
        /\ (req.route = "v2" => validV2InputWithSig(req.env))
        /\ ~WellFormed(req.env.set_data))
       => hist[1].out.status = 400 /\ VerifiesUpTo(Len(hist)) = 0
  /\ (req.route = "lock" /\ Finished /\ LockStaleAt(1))
       => IsStaleRejection(hist[1].out) /\ VerifiesUpTo(Len(hist)) = 0

---------------------------------------------------------------------------
(* C3 *)

\* the time stamp of the lock request as a number
LockTime(r) == IF r.lock.hasTimeStamp THEN Num(r.lock.timeStamp) ELSE NaN

\* the request reaches the replay check of a single-item middleware
ReachesReplay(r, name) ==
  CASE name = "validateMetadataInput" -> r.hasBody /\ WellFormed(r.env.set_data)
    [] name = "validateGetOrSetNonceSetInput" -> PassesStructural(r)
    [] name = "validateLockData" ->
         /\ r.hasBody /\ r.lock.hasKey /\ r.lock.hasSignature
         /\ r.lock.sigGood /\ r.lock.dataKind = "object"
    [] OTHER -> FALSE

\* the timestamp that check compares
ReplayTime(r, name) ==
  IF name = "validateLockData" THEN LockTime(r)
  ELSE ParseTimestamp(r.env.set_data)

SingleReplayChecks ==
  {"validateMetadataInput", "validateGetOrSetNonceSetInput", "validateLockData"}

\* the true server time of clock value c, in whole seconds, is more than
\* 60 s past t (every timestamp of the model is far below 2^31 - 60)
OlderThanWindow(c, t) ==
  \/ c.hi >= Half \div 2
  \/ c.hi * Half + c.lo - t > 60

\* run k, of a single-item middleware whose replay check is reached with an
\* integer timestamp, rejects as stale exactly when now - ts > 60
SingleBoundary(k) ==
  LET name == hist[k].mw
      t == ReplayTime(req, name)
  IN (name \in SingleReplayChecks /\ ReachesReplay(req, name) /\ ~t.nan) =>
       (IsStaleRejection(hist[k].out) <=> OlderThanWindow(hist[k].at, t.n))

\* run k, of validateMetadataLoopInput: every item it examined whose replay
\* check is reached with an integer timestamp stops the loop as stale
\* exactly when now - ts > 60
BatchBoundary(k) ==
  hist[k].mw = "validateMetadataLoopInput" =>
    \A j \in 1..hist[k].out.examined :
      LET item == req.batch.items[j]
          t == ParseTimestamp(item.set_data)
          stopsHere == j = hist[k].out.examined /\ hist[k].out.kind # "next"
      IN (~item.null /\ WellFormed(item.set_data) /\ ~t.nan) =>
           ((stopsHere /\ IsStaleRejection(hist[k].out))
              <=> OlderThanWindow(hist[k].at, t.n))

\* C3: with now the server time in whole seconds and ts an integer
\* timestamp, each of the four replay checks (single, batch, v2, lock data)
\* rejects with 403 and "Message has been signed more than 60s ago" if and
\* only if now - ts > 60.
C3_RejectsIffOlderThanWindow ==
  \A k \in 1..Len(hist) : SingleBoundary(k) /\ BatchBoundary(k)

\* C3, below 2^31 seconds (not the claim: the claim is for every server
\* time): while the clock is below 2^31 s the four checks reject exactly
\* when now - ts > 60.
C3_BoundaryBelowWrap ==
  \A k \in 1..Len(hist) :
    hist[k].at.hi < Half \div 2 => SingleBoundary(k) /\ BatchBoundary(k)

---------------------------------------------------------------------------
(* C4 *)

BatchMiddlewares ==
  {"validationLoopMiddleware", "validateMetadataLoopInput", "validateLoopSignature"}

\* C4: whenever a batch middleware rejects because of item i (structural,
\* stale, invalid signature or caught exception), the error of the response
\* carries index = i.
C4_ErrorCarriesIndex ==
  \A k \in 1..Len(hist) :
    (/\ hist[k].mw \in BatchMiddlewares
     /\ hist[k].out.kind = "respond"
     /\ hist[k].out.examined >= 1)
      => hist[k].out.index = hist[k].out.examined - 1

---------------------------------------------------------------------------
(* C5 *)

\* some stage fails on the item: the structural check, the replay check at
\* the time the first middleware computed, or the signature check
ItemFailsAStage(item, c) ==
  \/ item.null
  \/ ~WellFormed(item.set_data)
  \/ LET t == ParseTimestamp(item.set_data)
     IN ~t.nan /\ ServerTime(c) - t.n > Window
  \/ ~SignatureVerifies(item)

\* C5: a batch run through validateMetadataLoopInput and
\* validateLoopSignature is rejected for the lowest index at which any
\* stage fails, and no stage examines an item past that index.
C5_LowestFailingIndexReported ==
  (/\ req.route = "batch" /\ req.hasBody /\ req.batch.kind = "array"
   /\ Finished /\ hist[Len(hist)].out.kind = "respond")
    => LET i == hist[Len(hist)].out.examined
       IN /\ ItemFailsAStage(req.batch.items[i], hist[1].at)
          /\ \A j \in 1..(i - 1) :
               ~ItemFailsAStage(req.batch.items[j], hist[1].at)
          /\ \A k \in 1..Len(hist) : hist[k].out.examined <= i

---------------------------------------------------------------------------
(* C6 *)

\* the item fails the check of the batch middleware called name, run at
\* clock value c
FailsCheck(name, item, c) ==
  CASE name = "validationLoopMiddleware" ->
         \/ item.null
         \/ ~item.pub_key_X \/ ~item.pub_key_Y \/ ~item.signature.present
    [] name = "validateMetadataLoopInput" ->
         \/ item.null
         \/ ~WellFormed(item.set_data)
         \/ LET t == ParseTimestamp(item.set_data)
            IN ~t.nan /\ ServerTime(c) - t.n > Window
    [] name = "validateLoopSignature" ->
         item.null \/ ~SignatureVerifies(item)

\* what the batch middleware called name ends in on the array items
BatchOutcome(name, items, c) ==
  LET r == [req EXCEPT !.batch = [kind |-> "array", items |-> items]]
  IN CASE name = "validationLoopMiddleware" -> validationLoopMiddleware(r, c)
       [] name = "validateMetadataLoopInput" -> validateMetadataLoopInput(r, c)
       [] name = "validateLoopSignature" -> validateLoopSignature(r, c)

\* run k of a batch middleware on an array is sequential and fail-fast
FailFast(k) ==
  LET name == hist[k].mw
      o == hist[k].out
      items == req.batch.items
      n == o.examined
  IN /\ n <= Len(items)
     /\ o.kind = "next" =>
          /\ n = Len(items)
          /\ \A j \in 1..n : ~FailsCheck(name, items[j], hist[k].at)
     /\ o.kind # "next" =>
          /\ n >= 1
          /\ FailsCheck(name, items[n], hist[k].at)
          /\ \A j \in 1..(n - 1) : ~FailsCheck(name, items[j], hist[k].at)
          /\ ~items[n].null => o.kind = "respond"
          /\ k = Len(hist) /\ Finished
          /\ \A tail \in SeqsUpTo(BatchItems, MaxBatch - n) :
               BatchOutcome(name, SubSeq(items, 1, n) \o tail, hist[k].at) = o

---------------------------------------------------------------------------
(* C7 *)

\* one of the four keys is absent from the body
LacksAKey(e) ==
  \/ e.set_data.kind = "undefined"
  \/ ~e.pub_key_X
  \/ ~e.pub_key_Y
  \/ ~e.signature.present

V2Middlewares ==
  {"validateGetOrSetNonceSetInput", "validateGetOrSetNonceSignature"}

\* C7: on a request with a body, each v2 middleware skips every check and
\* calls next() with res.locals.noValidSig = true if and only if one of
\* set_data, pub_key_X, pub_key_Y, signature is absent from the body; it then
\* sends no response and verifies nothing; with all four present neither
\* middleware sets the flag.
C7_BypassIffAKeyIsAbsent ==
  req.hasBody =>
    /\ \A k \in 1..Len(hist) :
         (hist[k].mw \in V2Middlewares) =>
           /\ (hist[k].out.flag <=> LacksAKey(req.env))
           /\ (hist[k].out.flag =>
                 (hist[k].out.kind = "next" /\ hist[k].out.verifies = 0))
    /\ ((req.route = "v2" /\ hist # <<>>) =>
          (locals.noValidSig <=> LacksAKey(req.env)))
    /\ ((req.route = "v2" /\ Finished /\ LacksAKey(req.env)) => Accepted)

\* a v2 request with only one coordinate missing and a set_data without
\* data has passed both middlewares with the flag set
C7_Witness ==
  /\ req.route = "v2" /\ req.hasBody
  /\ req.env.pub_key_X /\ ~req.env.pub_key_Y /\ req.env.signature.present
  /\ req.env.set_data.kind = "object" /\ ~req.env.set_data.hasData
  /\ Accepted
  /\ locals.noValidSig

---------------------------------------------------------------------------
(* C8 *)

\* what the mandatory chain does at the place of run k of the v2 chain, on
\* the same body at the same clock value
MandatoryAt(k) ==
  IF k = 1 THEN validateMetadataInput(req, hist[k].at)
  ELSE validateSignature(req, hist[k].at)

\* the request is on the v2 route with all four keys in its body
V2WithAllKeys == req.route = "v2" /\ req.hasBody /\ ~LacksAKey(req.env)

\* C8 as claimed: with all four keys present the v2 chain ends every run
\* as the mandatory chain does on the same body and clock value.
C8_V2EqualsMandatory ==
  V2WithAllKeys => \A k \in 1..Len(hist) : hist[k].out = MandatoryAt(k)

\* the response is the v2 command rejection
IsCommandRejection(o) ==
  /\ o.kind = "respond"
  /\ o.status = 403
  /\ o.error = {<<"data", "Should be equal to 'getOrSetNonce' or 'getNonce'">>}

\* C8, amended: with all four keys present the v2 chain ends every run as
\* the mandatory chain does on the same body and clock value, except that a
\* structurally valid set_data whose data is neither 'getOrSetNonce' nor
\* 'getNonce' is rejected by validateGetOrSetNonceSetInput with 403 and
\* error.data, before the replay check.
C8_V2EqualsMandatoryOnCommands ==
  V2WithAllKeys =>
    \A k \in 1..Len(hist) :
      IF WellFormed(req.env.set_data) /\ req.env.set_data.data \notin V2Commands
      THEN k = 1 /\ IsCommandRejection(hist[k].out)
      ELSE hist[k].out = MandatoryAt(k)

\* a v2 request with a command, all four keys and a time stamp exactly 60 s
\* old has been accepted
C8_Witness ==
  /\ V2WithAllKeys
  /\ req.env.set_data.data = "getNonce"
  /\ Len(hist) = 2
  /\ ~ParseTimestamp(req.env.set_data).nan
  /\ ServerTime(hist[1].at) - ParseTimestamp(req.env.set_data).n = 60
  /\ Accepted

---------------------------------------------------------------------------
(* C9 *)

\* C9: a batch middleware that finds no array under the key sends a 400
\* response and neither calls next() nor throws.
C9_NonArrayIs400 ==
  \A k \in 1..Len(hist) :
    (/\ hist[k].mw \in BatchMiddlewares
     /\ req.hasBody /\ req.batch.kind # "array")
      => hist[k].out.kind = "respond" /\ hist[k].out.status = 400

---------------------------------------------------------------------------
(* C10 *)

\* the timestamp is a non-empty string that parseInt makes no number of
Unparsable(sd) ==
  /\ sd.kind = "object" /\ sd.hasTimestamp /\ sd.timestamp # <<>>
  /\ ParseIntHex(sd.timestamp).nan

\* C10: validateMetadataInput, validateMetadataLoopInput and
\* validateGetOrSetNonceSetInput (when it checks) do not call next() on a
\* non-empty timestamp that does not parse as a base-16 integer.
C10_UnparsableTimestampRejected ==
  \A k \in 1..Len(hist) :
    /\ (/\ hist[k].mw = "validateMetadataInput" /\ req.hasBody
         /\ Unparsable(req.env.set_data))
          => hist[k].out.kind # "next"
    /\ (/\ hist[k].mw = "validateGetOrSetNonceSetInput" /\ req.hasBody
         /\ ~LacksAKey(req.env) /\ Unparsable(req.env.set_data))
          => hist[k].out.kind # "next"
    /\ (/\ hist[k].mw = "validateMetadataLoopInput" /\ req.hasBody
         /\ req.batch.kind = "array"
         /\ \E j \in 1..Len(req.batch.items) :
              ~req.batch.items[j].null /\ Unparsable(req.batch.items[j].set_data))
          => hist[k].out.kind # "next"

---------------------------------------------------------------------------
(* C11 *)

\* the outcome is a rejection for a bad structure: a 400 response, which the
\* "Invalid signature" response is not
IsStructuralRejection(o) ==
  /\ o.kind = "respond"
  /\ o.status = 400
  /\ <<"signature", "Invalid signature">> \notin o.error

\* the signature of envelope e is there and does not decode to 64 bytes
WrongLength(e) == e.signature.present /\ e.signature.len # 64

\* C11: validateSignature, validateGetOrSetNonceSignature (when it checks)
\* and validateLoopSignature answer a signature that does not decode to
\* exactly 64 bytes with a structural rejection, never with next() and never
\* with the "Invalid signature" response; the loop does so for the first
\* item it cannot pass.
C11_OnlySixtyFourBytesPass ==
  \A k \in 1..Len(hist) :
    /\ (/\ hist[k].mw = "validateSignature" /\ req.hasBody
         /\ ~VerifyThrows(req.env) /\ WrongLength(req.env))
          => IsStructuralRejection(hist[k].out)
    /\ (/\ hist[k].mw = "validateGetOrSetNonceSignature" /\ req.hasBody
         /\ validV2InputWithSig(req.env) /\ ~VerifyThrows(req.env)
         /\ WrongLength(req.env))
          => IsStructuralRejection(hist[k].out)
    /\ (/\ hist[k].mw = "validateLoopSignature" /\ req.hasBody
         /\ req.batch.kind = "array"
         /\ \E j \in 1..Len(req.batch.items) :
              /\ ~req.batch.items[j].null /\ ~VerifyThrows(req.batch.items[j])
              /\ WrongLength(req.batch.items[j])
              /\ \A i \in 1..(j - 1) :
                   /\ ~req.batch.items[i].null
                   /\ ~VerifyThrows(req.batch.items[i])
                   /\ isValidSignature(req.batch.items[i]))
          => IsStructuralRejection(hist[k].out)

---------------------------------------------------------------------------
(* C12 *)

\* the messages of the response
Messages(o) == {e[2] : e \in o.error}

\* the response reports a stale timestamp or a signature that did not match
FreshnessOrSignatureFailure(o) ==
  Messages(o) \cap {StaleMessage, "Invalid signature", "Invalid Signature"} # {}

\* the response reports an exception the middleware caught
CaughtException(o) == "internal error" \in Messages(o)

\* the response reports a missing or malformed field, or a batch that is no
\* array
StructuralFailure(o) == ~FreshnessOrSignatureFailure(o) /\ ~CaughtException(o)

\* C12: every response a middleware sends is {success: false, error: <map
\* of field to message>}, with status 400 exactly for structural failures,
\* 403 exactly for freshness or signature failures and 500 exactly for
\* caught exceptions.
C12_RejectionShapeAndStatus ==
  \A k \in 1..Len(hist) :
    hist[k].out.kind = "respond" =>
      /\ hist[k].out.shape = "success"
      /\ hist[k].out.errorKind = "map"
      /\ hist[k].out.status \in {400, 403, 500}
      /\ hist[k].out.status = 400 <=> StructuralFailure(hist[k].out)
      /\ hist[k].out.status = 403 <=> FreshnessOrSignatureFailure(hist[k].out)
      /\ hist[k].out.status = 500 <=> CaughtException(hist[k].out)

---------------------------------------------------------------------------
(* C13 *)

\* C13: every run of a middleware, on every request (a missing body, a
\* null set_data and a null batch item included), ends in one call of
\* next() or in one response, never in an exception or a rejected promise
\* that leaves the middleware.
C13_OneOutcomeNoThrow ==
  \A k \in 1..Len(hist) : hist[k].out.kind \in {"next", "respond"}

---------------------------------------------------------------------------
(* C14 *)

\* C14: with a clock that never goes back, the replay check of the two
\* single-item chains passes an envelope with parsed timestamp T at every
\* true server time now <= T + 60, however far ahead T is, and answers the
\* timestamp 403 at every now > T + 60; and a request that was rejected as
\* stale and is sent again unchanged is never accepted and ends in the same
\* rejection.
C14_StaleStaysStale ==
  /\ \A k \in 1..Len(hist) :
       (/\ hist[k].mw \in {"validateMetadataInput", "validateGetOrSetNonceSetInput"}
        /\ PassesStructural(req)
        /\ ~ParseTimestamp(req.env.set_data).nan)
         => /\ AgeWithinWindow(hist[k].at, ParseTimestamp(req.env.set_data))
                 => hist[k].out.kind = "next"
            /\ OlderThanWindow(hist[k].at, ParseTimestamp(req.env.set_data).n)
                 => IsStaleRejection(hist[k].out)
  /\ \A i \in 1..Len(past) :
       (req.route \in {"single", "v2"} /\ IsStaleRejection(past[i].out))
         => /\ ~Accepted
            /\ Finished => hist[Len(hist)].out = past[i].out

---------------------------------------------------------------------------
(* C15 *)

NamespaceMiddlewares == {"validateNamespace", "validateNamespaceLoop"}

\* C15: a run of any middleware but validateNamespace and
\* validateNamespaceLoop leaves the request as it found it, and sets
\* res.locals.noValidSig only if it is one of the two v2 middlewares; the
\* two namespace middlewares assign nothing but tableName, of the body or of
\* a batch item.
C15_OnlyNamespaceWritesRequest ==
  [][(pc > 0 /\ hist' # hist) =>
       LET name == Chain(req.route)[pc]
       IN /\ name \notin NamespaceMiddlewares => req' = req
          /\ name \notin V2Middlewares => locals' = locals
          /\ \A w \in req'.assigned : w[2] = "tableName"]_vars

\* a v2 request has passed both v2 middlewares unauthenticated, marked in
\* res.locals only, and its body is as it arrived
C15_Witness ==
  /\ req.route = "v2" /\ Accepted
  /\ locals.noValidSig
  /\ req.assigned = {}

---------------------------------------------------------------------------
(* C16 *)

\* the integer n is floor(clockMillis / 1000) of clock value c, whose whole
\* seconds are c.hi * 2^16 + c.lo
IsFloorSeconds(n, c) == n >= 0 /\ n \div Half = c.hi /\ n % Half = c.lo

\* C16: the server time a middleware computes, ~~(Date.now() / 1000), is
\* floor(clockMillis / 1000) at every clock value, those of 2^31 seconds
\* and more included; hence a single-item replay check that is reached with
\* a timestamp more than 60 s behind the true server time answers the
\* timestamp 403.
C16_TruncationIsFloor ==
  \A k \in 1..Len(hist) :
    /\ IsFloorSeconds(ServerTime(hist[k].at), hist[k].at)
    /\ (/\ hist[k].mw \in {"validateMetadataInput", "validateGetOrSetNonceSetInput"}
        /\ ReachesReplay(req, hist[k].mw)
        /\ ~ParseTimestamp(req.env.set_data).nan
        /\ OlderThanWindow(hist[k].at, ParseTimestamp(req.env.set_data).n))
         => IsStaleRejection(hist[k].out)

====
